---- MODULE Spec2Model ----
(***************************************************************************)
(* Model of rss_debt_engine.py: the RSSLaboratory session (three sliders,  *)
(* a reset button, a mode button), its landscape evaluator                 *)
(* calculate_debt_landscape, and the velocity sweep of                     *)
(* demonstrate_third_law.                                                  *)
(*                                                                         *)
(* Numbers.  The program computes in floating point; the model computes    *)
(* the same expressions exactly.  Velocities and curvatures are integers   *)
(* in thousandths (v = 990 is 0.99, kappa = -234 is -0.234), the base      *)
(* discreteness is an integer.  Every derived quantity is an exact         *)
(* rational with numerator and denominator kept as natural numbers of      *)
(* arbitrary size (sequences of base-10000 digits, least significant       *)
(* first), extended by the two non-finite results numpy can produce, inf   *)
(* and nan.  The Lorentz factor is a square root, so it is carried as a    *)
(* "surd": the non-negative number whose square is the stored rational.    *)
(* Rounding of IEEE doubles is outside the model.                          *)
(***************************************************************************)
EXTENDS Integers, Sequences, FiniteSets, TLC

VARIABLES
    slider_v, slider_k, slider_n,   \* Slider.val of the three sliders
    v, kappa, n, gamma,             \* self.v, self.kappa, self.n, self.gamma
    debt_data,                      \* self.debt_data (the grid shown by self.im)
    text_info,                      \* what self.text_info shows
    mode,                           \* self.mode
    updates,                        \* runs of _update inside the last handler
    last, prev,                     \* the last handler that ran, and the one before
    sweep_i, debts_lorentz          \* demonstrate_third_law: loop index, result list

vars == <<slider_v, slider_k, slider_n, v, kappa, n, gamma, debt_data,
          text_info, mode, updates, last, prev, sweep_i, debts_lorentz>>

sessionVars == <<slider_v, slider_k, slider_n, v, kappa, n, gamma, debt_data,
                 text_info, mode, updates, last, prev>>

sweepVars == <<sweep_i, debts_lorentz>>

----------------------------------------------------------------------------
(* Natural numbers of arbitrary size *)

Abs(x) == IF x < 0 THEN -x ELSE x

RECURSIVE BigNat(_)
BigNat(m) == IF m = 0 THEN <<>> ELSE <<m % 10000>> \o BigNat(m \div 10000)

Limb(a, i) == IF i >= 1 /\ i <= Len(a) THEN a[i] ELSE 0

RECURSIVE Trim(_)
Trim(a) ==
    IF a # <<>> /\ a[Len(a)] = 0 THEN Trim(SubSeq(a, 1, Len(a) - 1)) ELSE a

RECURSIVE ConvSum(_, _, _, _)
ConvSum(a, b, k, i) ==
    IF i > Len(a) THEN 0
    ELSE Limb(a, i) * Limb(b, k + 1 - i) + ConvSum(a, b, k, i + 1)

RECURSIVE MulCarry(_, _, _, _)
MulCarry(a, b, k, c) ==
    IF k > Len(a) + Len(b) THEN <<>>
    ELSE LET t == ConvSum(a, b, k, 1) + c
         IN  <<t % 10000>> \o MulCarry(a, b, k + 1, t \div 10000)

BigMul(a, b) == IF a = <<>> \/ b = <<>> THEN <<>> ELSE Trim(MulCarry(a, b, 1, 0))

RECURSIVE AddCarry(_, _, _, _)
AddCarry(a, b, k, c) ==
    IF k > Len(a) /\ k > Len(b)
    THEN IF c = 0 THEN <<>> ELSE <<c>>
    ELSE LET t == Limb(a, k) + Limb(b, k) + c
         IN  <<t % 10000>> \o AddCarry(a, b, k + 1, t \div 10000)

BigAdd(a, b) == AddCarry(a, b, 1, 0)

RECURSIVE CmpFrom(_, _, _)
CmpFrom(a, b, i) ==
    IF i = 0 THEN 0
    ELSE IF a[i] > b[i] THEN 1
    ELSE IF a[i] < b[i] THEN -1
    ELSE CmpFrom(a, b, i - 1)

\* -1, 0 or 1 as a < b, a = b, a > b
BigCmp(a, b) ==
    IF Len(a) > Len(b) THEN 1
    ELSE IF Len(a) < Len(b) THEN -1
    ELSE CmpFrom(a, b, Len(a))

----------------------------------------------------------------------------
(* Exact rationals extended by inf and nan *)

Inf == [kind |-> "inf", neg |-> FALSE, num |-> <<>>, den |-> <<>>]
NaN == [kind |-> "nan", neg |-> FALSE, num |-> <<>>, den |-> <<>>]

\* p / q for integers p and q > 0
Rat(p, q) ==
    [kind |-> "fin", neg |-> p < 0, num |-> BigNat(Abs(p)), den |-> BigNat(q)]

IsFinite(x) == x.kind = "fin"
IsZero(x) == x.kind = "fin" /\ x.num = <<>>

RAbs(x) == [x EXCEPT !.neg = FALSE]

RMul(a, b) ==
    IF a.kind = "nan" \/ b.kind = "nan" THEN NaN
    ELSE IF a.kind = "inf" \/ b.kind = "inf"
    THEN IF IsZero(a) \/ IsZero(b) THEN NaN ELSE Inf
    ELSE LET p == BigMul(a.num, b.num)
         IN  [kind |-> "fin", neg |-> (p # <<>>) /\ (a.neg # b.neg),
              num |-> p, den |-> BigMul(a.den, b.den)]

RDiv(a, b) ==
    IF a.kind = "nan" \/ b.kind = "nan" THEN NaN
    ELSE IF b.kind = "inf" THEN IF a.kind = "inf" THEN NaN ELSE Rat(0, 1)
    ELSE IF a.kind = "inf" THEN Inf
    ELSE IF IsZero(b) THEN IF IsZero(a) THEN NaN ELSE Inf
    ELSE LET p == BigMul(a.num, b.den)
         IN  [kind |-> "fin", neg |-> (p # <<>>) /\ (a.neg # b.neg),
              num |-> p, den |-> BigMul(a.den, b.num)]

\* a + b for finite a, b >= 0
RAdd(a, b) ==
    [kind |-> "fin", neg |-> FALSE,
     num |-> BigAdd(BigMul(a.num, b.den), BigMul(b.num, a.den)),
     den |-> BigMul(a.den, b.den)]

\* -1, 0 or 1 as a < b, a = b, a > b, for finite a and b
RCmp(a, b) ==
    IF a.neg /\ ~b.neg THEN -1
    ELSE IF b.neg /\ ~a.neg THEN 1
    ELSE LET c == BigCmp(BigMul(a.num, b.den), BigMul(b.num, a.den))
         IN  IF a.neg THEN -c ELSE c

\* the same number (two fractions of the same value are equal)
REq(a, b) == a.kind = b.kind /\ (a.kind = "fin" => RCmp(a, b) = 0)
RLess(a, b) == IsFinite(a) /\ IsFinite(b) /\ RCmp(a, b) < 0
RLeq(a, b) == IsFinite(a) /\ IsFinite(b) /\ RCmp(a, b) <= 0

\* np.clip(x, lo, hi) = minimum(maximum(x, lo), hi); nan stays nan
Clip(x, lo, hi) ==
    IF x.kind = "nan" THEN NaN
    ELSE IF x.kind = "inf" THEN hi
    ELSE IF RCmp(x, lo) < 0 THEN lo
    ELSE IF RCmp(x, hi) > 0 THEN hi
    ELSE x

(* Surds: [sq |-> r] is the non-negative number whose square is r *)
Surd(r) == [sq |-> RMul(r, r)]          \* a rational r >= 0 as a surd
SSqrt(x) ==                             \* np.sqrt: nan for a negative argument
    IF x.kind = "fin" /\ x.neg THEN [sq |-> NaN] ELSE [sq |-> x]
SDiv(a, b) == [sq |-> RDiv(a.sq, b.sq)]
SMul(a, b) == [sq |-> RMul(a.sq, b.sq)]
SPow2(a) == a.sq                        \* a ** 2
SEq(a, b) == REq(a.sq, b.sq)

----------------------------------------------------------------------------
(* Program constants *)

KAPPA_INIT == -234      \* self.kappa = -0.234
V_INIT == 0             \* self.v = 0.0
N_INIT == 10            \* self.n = 10
F_REST == Rat(1, 1)     \* self.f_rest = 1.0
GAMMA_INIT == Surd(Rat(1, 1))   \* self.gamma = 1.0
V_CLAMP == 999          \* self.v = 0.999
CLIP_MAX == 100         \* np.clip(debt, 0, 100)
Samples == 100          \* np.linspace(..., 100), both axes

V_MIN == 0              \* Slider(ax_v, ..., 0.0, 0.99, ...)
V_MAX == 990
K_MIN == -1000          \* Slider(ax_k, ..., -1.0, 0.0, ...)
K_MAX == 0
N_MIN == 1              \* Slider(ax_n, ..., 1, 30, ...)
N_MAX == 30

(* Bounds of the model *)
GridSamples == 3        \* grid indices followed on each axis (of Samples)

\* the followed indices 0 .. Samples-1, evenly spread, both ends included
GridIdx == {(k * (Samples - 1)) \div (GridSamples - 1) : k \in 0 .. (GridSamples - 1)}
Cells == GridIdx \X GridIdx     \* <<row (n axis), column (f axis)>>

\* f_range[i] = 0.01 + i * (2.0 - 0.01) / 99
f_range(i) == Rat(99 + 199 * i, 9900)
\* n_range[j] = 1 + j * (50 - 1) / 99
n_range(j) == Rat(99 + 49 * j, 99)

----------------------------------------------------------------------------
(* calculate_debt_landscape *)

\* faults: the guard written as abs(self.v) > 1; the clamp value taken from
\* the slider maximum
ClampV_strict(vm) == IF Abs(vm) > 1000 THEN V_CLAMP ELSE vm
ClampV_to_max(vm) == IF Abs(vm) >= 1000 THEN V_MAX ELSE vm

\* if abs(self.v) >= 1: self.v = 0.999
ClampV(vm) == IF Abs(vm) >= 1000 THEN V_CLAMP ELSE vm

\* 1 - self.v ** 2
OneMinusSq(vm) == Rat(1000000 - vm * vm, 1000000)

\* 1 / np.sqrt(1 - self.v ** 2)
Lorentz(vm) == SDiv(Surd(Rat(1, 1)), SSqrt(OneMinusSq(vm)))

\* fault: n_prime = N, the discreteness axis left untransformed
CellDebt_plain_n(kap, g, j, i) ==
    LET f_prime == SDiv(Surd(f_range(i)), g)
        n_prime == Surd(n_range(j))
    IN  RMul(RMul(RAbs(Rat(kap, 1000)), SPow2(f_prime)), SPow2(n_prime))

\* debt = abs(self.kappa) * (f_prime ** 2) * (n_prime ** 2) at mesh cell <<j, i>>
CellDebt(kap, g, j, i) ==
    LET f_prime == SDiv(Surd(f_range(i)), g)
        n_prime == SMul(Surd(n_range(j)), g)
    IN  RMul(RMul(RAbs(Rat(kap, 1000)), SPow2(f_prime)), SPow2(n_prime))

\* fault: the data clamped to the colour range of set_clim(vmin=0, vmax=50)
ClipDebt_clim(d) == Clip(d, Rat(0, 1), Rat(50, 1))

\* np.clip(debt, 0, 100)
ClipDebt(d) == Clip(d, Rat(0, 1), Rat(CLIP_MAX, 1))

\* the call on an object whose fields are kappa = kap, v = vm: the fields it
\* writes (v, gamma) and the grid it returns
calculate_debt_landscape(kap, vm) ==
    LET v1 == ClampV(vm)
        g  == Lorentz(v1)
    IN  [v |-> v1, gamma |-> g,
         ret |-> [c \in Cells |-> ClipDebt(CellDebt(kap, g, c[1], c[2]))]]

----------------------------------------------------------------------------
(* Values the model draws its inputs from *)

\* where the pointer can be released on each slider, before the slider
\* brings the value into its range
PointerV == {-200, 0, 300, 950, 990, 1200}
PointerK == {-1300, -1000, -234, -100, 0, 200}
PointerN == {0, 1, 10, 17, 30, 45}

\* field values calculate_debt_landscape can be entered with
EntryV == {-1500, -1000, -600, 0, 300, 950, 990, 999, 1000, 1500}
EntryK == {-1000, -234, -100, 0, 500}
EntryN == {1, 10, 30, 50}

AllV == PointerV \cup EntryV \cup {V_INIT, V_CLAMP, V_MAX}
AllK == PointerK \cup EntryK \cup {KAPPA_INIT}
AllN == PointerN \cup EntryN \cup {N_INIT}

\* the evaluator's results, computed once for every pair of inputs
LandscapeOf == [kap \in AllK, vm \in AllV |-> calculate_debt_landscape(kap, vm)]

----------------------------------------------------------------------------
(* RSSLaboratory: the session object as a record of its fields *)

Modes == {"newton", "interval", "ghost"}

NoText == [shown |-> FALSE]     \* text_info as constructed: ''

\* the numbers _update writes into the summary, and the regime it names
Summary(kap, nn, g, vm) ==
    LET f_transformed == SDiv(Surd(F_REST), g)
        n_transformed == SMul(Surd(Rat(nn, 1)), g)
        current_debt  == RMul(RMul(RAbs(Rat(kap, 1000)), SPow2(f_transformed)),
                              SPow2(n_transformed))
    IN  [shown |-> TRUE, gamma |-> g,
         f_transformed |-> f_transformed, n_transformed |-> n_transformed,
         current_debt |-> current_debt,
         regime |-> IF vm < 100 THEN "Newton Limit"
                    ELSE IF vm > 900 THEN "Relativistic Limit"
                    ELSE "RSS Transition"]

SummaryOf ==
    [kap \in AllK, nn \in AllN, vm \in AllV |->
        Summary(kap, nn, LandscapeOf[kap, vm].gamma, LandscapeOf[kap, vm].v)]

\* fault: self.n not refreshed from its slider
_update_stale_n(s) ==
    LET r == LandscapeOf[s.slider_k, s.slider_v]
    IN  [s EXCEPT !.v = r.v, !.kappa = s.slider_k,
                  !.gamma = r.gamma, !.debt_data = r.ret,
                  !.text_info = SummaryOf[s.slider_k, s.n, s.slider_v],
                  !.updates = @ + 1]

\* _update(val): read the three sliders, evaluate, replace grid and summary
_update(s) ==
    LET r == LandscapeOf[s.slider_k, s.slider_v]
    IN  [s EXCEPT !.v = r.v, !.kappa = s.slider_k, !.n = s.slider_n,
                  !.gamma = r.gamma, !.debt_data = r.ret,
                  !.text_info = SummaryOf[s.slider_k, s.slider_n, s.slider_v],
                  !.updates = @ + 1]

valinit(which) ==
    IF which = "slider_v" THEN V_INIT
    ELSE IF which = "slider_k" THEN KAPPA_INIT
    ELSE N_INIT

valmin(which) ==
    IF which = "slider_v" THEN V_MIN ELSE IF which = "slider_k" THEN K_MIN ELSE N_MIN

valmax(which) ==
    IF which = "slider_v" THEN V_MAX ELSE IF which = "slider_k" THEN K_MAX ELSE N_MAX

\* fault: a dragged value taken as it comes
value_in_bounds_none(which, p) == p

\* Slider._value_in_bounds: a dragged value is brought into [valmin, valmax]
value_in_bounds(which, p) ==
    IF p <= valmin(which) THEN valmin(which)
    ELSE IF p >= valmax(which) THEN valmax(which)
    ELSE p

\* fault: set_val bringing its argument into the slider's range
set_val_clipped(s, which, val) ==
    _update([s EXCEPT ![which] = value_in_bounds(which, val)])

\* Slider.set_val(val): stores val as given (no range check) and calls the
\* on_changed observer, here always _update
set_val(s, which, val) == _update([s EXCEPT ![which] = val])

\* fault: reset calling set_val whether or not the value differs
slider_reset_always(s, which) == set_val(s, which, valinit(which))

\* Slider.reset(): set_val(valinit) only when the value differs from valinit
slider_reset(s, which) ==
    IF s[which] # valinit(which) THEN set_val(s, which, valinit(which)) ELSE s

\* a drag of slider `which` to pointer position p: set_val only on a new value
slider_drag(s, which, p) ==
    LET val == value_in_bounds(which, p)
    IN  IF val # s[which] THEN set_val(s, which, val) ELSE s

\* fault: the curvature slider left out of the reset
_reset_without_k(s) == slider_reset(slider_reset(s, "slider_v"), "slider_n")

\* _reset(event)
_reset(s) ==
    slider_reset(slider_reset(slider_reset(s, "slider_v"), "slider_k"), "slider_n")

\* _toggle_mode(event)
_toggle_mode(s) ==
    IF s.mode = "newton"
    THEN set_val(set_val([s EXCEPT !.mode = "interval"],
                         "slider_n", 50), "slider_v", 0)
    ELSE IF s.mode = "interval"
    THEN set_val(set_val(set_val([s EXCEPT !.mode = "ghost"],
                                 "slider_n", 1), "slider_v", 0), "slider_k", -234)
    ELSE set_val(set_val([s EXCEPT !.mode = "newton"],
                         "slider_n", 10), "slider_v", 0)

\* __init__ followed by _setup_sliders
Constructed ==
    [slider_v |-> V_INIT, slider_k |-> KAPPA_INIT, slider_n |-> N_INIT,
     v |-> LandscapeOf[KAPPA_INIT, V_INIT].v, kappa |-> KAPPA_INIT, n |-> N_INIT,
     gamma |-> LandscapeOf[KAPPA_INIT, V_INIT].gamma,
     debt_data |-> LandscapeOf[KAPPA_INIT, V_INIT].ret,
     text_info |-> NoText, mode |-> "newton", updates |-> 0]

----------------------------------------------------------------------------
(* The interactive session *)

Self ==
    [slider_v |-> slider_v, slider_k |-> slider_k, slider_n |-> slider_n,
     v |-> v, kappa |-> kappa, n |-> n, gamma |-> gamma, debt_data |-> debt_data,
     text_info |-> text_info, mode |-> mode, updates |-> 0]

\* the object after a handler has returned
Becomes(s) ==
    /\ slider_v' = s.slider_v /\ slider_k' = s.slider_k /\ slider_n' = s.slider_n
    /\ v' = s.v /\ kappa' = s.kappa /\ n' = s.n /\ gamma' = s.gamma
    /\ debt_data' = s.debt_data /\ text_info' = s.text_info /\ mode' = s.mode
    /\ updates' = s.updates

SweepIdle == sweep_i = 0 /\ debts_lorentz = <<>>

\* the object is s
Is(s) ==
    /\ slider_v = s.slider_v /\ slider_k = s.slider_k /\ slider_n = s.slider_n
    /\ v = s.v /\ kappa = s.kappa /\ n = s.n /\ gamma = s.gamma
    /\ debt_data = s.debt_data /\ text_info = s.text_info /\ mode = s.mode
    /\ updates = s.updates

Init ==
    /\ Is(Constructed)
    /\ last = "init" /\ prev = "init"
    /\ SweepIdle

Pointers(which) ==
    IF which = "slider_v" THEN PointerV
    ELSE IF which = "slider_k" THEN PointerK
    ELSE PointerN

SliderChange ==
    \E which \in {"slider_v", "slider_k", "slider_n"} :
        \E p \in Pointers(which) :
            /\ value_in_bounds(which, p) # Self[which]
            /\ Becomes(slider_drag(Self, which, p))
            /\ last' = "slider" /\ prev' = last
            /\ UNCHANGED sweepVars

Reset ==
    /\ Becomes(_reset(Self))
    /\ last' = "reset" /\ prev' = last
    /\ UNCHANGED sweepVars

ToggleMode ==
    /\ Becomes(_toggle_mode(Self))
    /\ last' = "toggle" /\ prev' = last
    /\ UNCHANGED sweepVars

Next == SliderChange \/ Reset \/ ToggleMode

Spec == Init /\ [][Next]_vars

----------------------------------------------------------------------------
(* calculate_debt_landscape on its own: entered from _update, which has    *)
(* just copied the three slider values into self.v, self.kappa, self.n     *)
(* (set_val stores any value, so the entry values are not confined to the  *)
(* slider ranges); gamma and debt_data are left over from an earlier call. *)

EvalInit ==
    /\ slider_v \in EntryV /\ slider_k \in EntryK /\ slider_n \in EntryN
    /\ v = slider_v /\ kappa = slider_k /\ n = slider_n
    /\ gamma \in {GAMMA_INIT, Lorentz(600)}
    /\ debt_data = LandscapeOf[KAPPA_INIT, V_INIT].ret
    /\ text_info = NoText
    /\ mode \in Modes
    /\ updates = 0
    /\ last = "entry" /\ prev = "init"
    /\ SweepIdle

\* self.debt_data = self.calculate_debt_landscape()
Evaluate ==
    /\ last = "entry"
    /\ LET r == LandscapeOf[kappa, v]
       IN  v' = r.v /\ gamma' = r.gamma /\ debt_data' = r.ret
    /\ last' = "returned" /\ prev' = last
    /\ UNCHANGED <<slider_v, slider_k, slider_n, kappa, n, text_info, mode, updates>>
    /\ UNCHANGED sweepVars

EvalNext == Evaluate

EvalSpec == EvalInit /\ [][EvalNext]_vars

----------------------------------------------------------------------------
(* demonstrate_third_law: the velocity sweep of the right-hand plot *)

SweepSamples == 100     \* v_values = np.linspace(0, 0.99, 100)

\* v_values[i] = i * 0.99 / 99, in thousandths
v_values(i) == (990 * i) \div (SweepSamples - 1)

\* 1e-10
EPSILON == RMul(Rat(1, 100000), Rat(1, 100000))

\* D0 = 0.234 * 1 * 100
D0 == Rat(234 * 1 * 100, 1000)

\* fault: the reference debt divided by gamma ** 2
D_prime_divided(vm) ==
    LET g == SDiv(Surd(Rat(1, 1)), SSqrt(RAdd(OneMinusSq(vm), EPSILON)))
    IN  RDiv(D0, SPow2(g))

\* gamma = 1 / np.sqrt(1 - v ** 2 + 1e-10); D_prime = D0 * (gamma ** 2)
D_prime(vm) ==
    LET g == SDiv(Surd(Rat(1, 1)), SSqrt(RAdd(OneMinusSq(vm), EPSILON)))
    IN  RMul(D0, SPow2(g))

SweepInit ==
    /\ Is(Constructed)
    /\ last = "init" /\ prev = "init"
    /\ SweepIdle

\* one round of: for v in v_values: ... debts_lorentz.append(D_prime)
SweepStep ==
    /\ sweep_i < SweepSamples
    /\ debts_lorentz' = Append(debts_lorentz, D_prime(v_values(sweep_i)))
    /\ sweep_i' = sweep_i + 1
    /\ UNCHANGED sessionVars

SweepNext == SweepStep

SweepSpec == SweepInit /\ [][SweepNext]_vars

----------------------------------------------------------------------------
(* Reference quantities the properties are stated with *)

Sq(x) == RMul(x, x)

\* |kap| * rate^2 * discreteness^2 at mesh cell c, with no Lorentz transform
UntransformedDebt(kap, c) ==
    RMul(RMul(Rat(Abs(kap), 1000), Sq(Rat(99 + 199 * c[2], 9900))),
         Sq(Rat(99 + 49 * c[1], 99)))

Hundred == Rat(100, 1)
Nought == Rat(0, 1)

\* the reference clamped to [0, 100]
UntransformedGrid(kap, c) ==
    IF RCmp(UntransformedDebt(kap, c), Hundred) > 0 THEN Hundred
    ELSE UntransformedDebt(kap, c)

\* g is the Lorentz factor of velocity vm: g >= 0 and g^2 * (1 - vm^2) = 1
IsLorentzOf(g, vm) ==
    /\ IsFinite(g.sq)
    /\ vm * vm < 1000000
    /\ REq(RMul(g.sq, Rat(1000000 - vm * vm, 1000000)), Rat(1, 1))

SameGrid(a, b) == \A c \in Cells : REq(a[c], b[c])

\* how many sliders are away from their initial values
SlidersOff ==
    (IF slider_v # 0 THEN 1 ELSE 0) + (IF slider_k # -234 THEN 1 ELSE 0)
        + (IF slider_n # 10 THEN 1 ELSE 0)

----------------------------------------------------------------------------
(* Mode cycle *)

PresetInForce ==
    /\ last = "init" => mode = "newton"
    /\ last = "toggle" /\ mode = "interval" =>
          slider_n = 50 /\ n = 50 /\ slider_v = 0 /\ v = 0
    /\ last = "toggle" /\ mode = "ghost" =>
          /\ slider_n = 1 /\ n = 1 /\ slider_v = 0 /\ v = 0
          /\ slider_k = -234 /\ kappa = -234
    /\ last = "toggle" /\ mode = "newton" =>
          slider_n = 10 /\ n = 10 /\ slider_v = 0 /\ v = 0

ToggleOrder ==
    /\ last' = "toggle" /\ mode = "newton" => mode' = "interval"
    /\ last' = "toggle" /\ mode = "interval" => mode' = "ghost"
    /\ last' = "toggle" /\ mode = "ghost" =>
          mode' = "newton" /\ kappa' = kappa /\ slider_k' = slider_k
    /\ last' # "toggle" => mode' = mode

(* C1: the session starts in mode Newton; every _toggle_mode moves the mode *)
(* Newton -> Interval -> Ghost -> Newton (so three toggles come back to     *)
(* Newton) and no other handler changes it; after a toggle the parameters   *)
(* are the preset of the mode entered (Interval: n = 50, v = 0; Ghost:      *)
(* n = 1, v = 0, kappa = -0.234; Newton: n = 10, v = 0, kappa as before the *)
(* toggle), whatever slider changes and resets came earlier.                *)
C1_ModeCycle == []PresetInForce /\ [][ToggleOrder]_vars

\* a toggle into Newton after the curvature slider was moved off its default
C1_Witness ==
    last = "toggle" /\ prev = "slider" /\ mode = "newton" /\ kappa = -1000 /\ n = 10

----------------------------------------------------------------------------
(* Reset *)

DefaultsAfterReset ==
    last = "reset" =>
        /\ slider_v = 0 /\ slider_k = -234 /\ slider_n = 10
        /\ v = 0 /\ kappa = -234 /\ n = 10

SecondResetKeeps ==
    last = "reset" /\ last' = "reset" =>
        UNCHANGED <<slider_v, slider_k, slider_n, v, kappa, n>>

(* C2: after _reset the three parameters are the defaults (kappa = -0.234,  *)
(* v = 0.0, n = 10), from whatever state it was called in, and a second     *)
(* _reset right after it leaves them as they are.                           *)
C2_ResetIdempotent == []DefaultsAfterReset /\ [][SecondResetKeeps]_vars

\* two resets in a row, after the mode was toggled
C2_Witness == prev = "reset" /\ last = "reset" /\ mode = "ghost" /\ kappa = -234

(* C3, as claimed: every _reset runs _update at least once before it        *)
(* returns, also when all three sliders already hold their defaults.        *)
C3_AlwaysRecomputes == last = "reset" => updates >= 1

(* C3, amended: _reset runs _update once for each slider whose value        *)
(* differs from its initial value when _reset is called, so not at all when *)
(* all three sliders hold their defaults.                                   *)
C3_RecomputesPerChangedSlider ==
    [][last' = "reset" => updates' = SlidersOff]_vars

\* a reset of the freshly constructed session: _update has never run, the
\* summary text is still empty
C3_Witness ==
    last = "reset" /\ prev = "init" /\ updates = 0 /\ text_info = NoText

----------------------------------------------------------------------------
(* The evaluator *)

C5_Clamped ==
    \A c \in Cells :
        LET raw == CellDebt(kappa, gamma, c[1], c[2])
        IN  /\ IsFinite(raw) /\ IsFinite(debt_data[c])
            /\ RCmp(raw, Nought) >= 0
            /\ RCmp(debt_data[c], Nought) >= 0
            /\ RCmp(debt_data[c], Hundred) <= 0
            /\ RCmp(raw, Hundred) > 0 => REq(debt_data[c], Hundred)
            /\ RCmp(raw, Hundred) <= 0 => REq(debt_data[c], raw)

\* after a slider change at v = 0.95 the grid has a clamped cell and a cell
\* that passed through
C5_Witness ==
    /\ last = "slider" /\ v = 950
    /\ \E c \in Cells :
          /\ RCmp(CellDebt(kappa, gamma, c[1], c[2]), Hundred) > 0
          /\ REq(debt_data[c], Hundred)
    /\ \E c \in Cells :
          /\ RCmp(debt_data[c], Nought) > 0
          /\ RCmp(debt_data[c], Hundred) < 0

(* C6: the evaluator replaces a velocity >= 1 by 0.999 before computing     *)
(* gamma, and for every velocity it is entered with, 1 - v^2 is positive    *)
(* (no division by zero, no root of a negative number) and gamma, the root  *)
(* of 1 / (1 - v^2), is finite, is >= 1, and is 1 exactly when v = 0.       *)
C6_GammaDefined ==
    last = "returned" =>
        /\ slider_v >= 1000 => v = 999
        /\ slider_v > -1000 /\ slider_v < 1000 => v = slider_v
        /\ IsLorentzOf(gamma, v)
        /\ RCmp(gamma.sq, Rat(1, 1)) >= 0
        /\ REq(gamma.sq, Rat(1, 1)) <=> v = 0

\* a call entered with v = 1.0 exactly
C6_Witness ==
    last = "returned" /\ slider_v = 1000 /\ v = 999 /\ IsFinite(gamma.sq)

----------------------------------------------------------------------------
(* State after a handler *)

InStep ==
    /\ v = slider_v /\ kappa = slider_k /\ n = slider_n
    /\ IsLorentzOf(gamma, v)
    /\ debt_data = calculate_debt_landscape(kappa, v).ret
    /\ text_info.shown =>
          /\ SEq(text_info.gamma, gamma)
          /\ REq(text_info.current_debt,
                 RMul(RMul(Rat(Abs(kappa), 1000), RDiv(Rat(1, 1), gamma.sq)),
                      RMul(Rat(n * n, 1), gamma.sq)))
    /\ ~text_info.shown => slider_v = 0 /\ slider_k = -234 /\ slider_n = 10

RecomputedOnChange ==
    <<slider_v, slider_k, slider_n>>' # <<slider_v, slider_k, slider_n>> =>
        updates' >= 1 /\ text_info'.shown

(* C7: after every handler the stored state agrees with the sliders:        *)
(* self.v, self.kappa, self.n are the slider values, self.gamma is the      *)
(* Lorentz factor of the velocity, debt_data is the landscape of the        *)
(* current parameters, and the summary (once shown) reports the single-     *)
(* point debt |kappa| * (f_rest/gamma)^2 * (n*gamma)^2 with f_rest = 1; a   *)
(* handler that changes a slider runs _update, and the summary is missing   *)
(* only while no slider has ever been changed.                              *)
C7_Consistent == []InStep /\ [][RecomputedOnChange]_vars

\* the Ghost preset, which sets three sliders, entered from a moved session
C7_Witness ==
    /\ last = "toggle" /\ prev = "slider" /\ mode = "ghost" /\ updates = 3
    /\ text_info.shown /\ n = 1

----------------------------------------------------------------------------
(* The velocity sweep *)

Increasing(seq) == \A k \in 1 .. (Len(seq) - 1) : RLess(seq[k], seq[k + 1])

(* C8, as claimed: the first sample of the sweep (v = 0) is D' = 23.4 = D0, *)
(* and D' strictly increases from each sample to the next.                  *)
C8_StartsAtD0 ==
    /\ Len(debts_lorentz) >= 1 => REq(debts_lorentz[1], Rat(234, 10))
    /\ Increasing(debts_lorentz)

(* C8, amended: the first sample of the sweep (v = 0) is                    *)
(* D' = D0 / (1 + 1e-10), which is below D0 = 23.4 by less than 1e-8, and   *)
(* D' strictly increases from each sample to the next.                      *)
C8_StartsBelowD0 ==
    /\ Len(debts_lorentz) >= 1 =>
          /\ REq(RMul(debts_lorentz[1],
                      RAdd(Rat(1, 1), RMul(Rat(1, 100000), Rat(1, 100000)))),
                 Rat(234, 10))
          /\ RLess(debts_lorentz[1], Rat(234, 10))
          /\ RLess(Rat(233999999, 10000000), debts_lorentz[1])
    /\ Increasing(debts_lorentz)

\* the whole sweep has run
C8_Witness == sweep_i = 100 /\ Len(debts_lorentz) = 100

----------------------------------------------------------------------------
(* The grid and the velocity *)

GridIsUntransformed ==
    \A c \in Cells : REq(debt_data[c], UntransformedGrid(kappa, c))

OnlyKappaMovesGrid == kappa' = kappa => SameGrid(debt_data', debt_data)

C10_InRange ==
    /\ 0 <= v /\ v <= 990
    /\ 1 <= n /\ n <= 50
    /\ slider_v < 1000 /\ slider_v > -1000
    /\ v = slider_v

\* the extremes together: Interval mode's n = 50, then the velocity slider
\* dragged to its maximum
C10_Witness == last = "slider" /\ n = 50 /\ v = 990 /\ mode = "interval"

====
